---- MODULE Spec2Model ----
(***************************************************************************)
(* A model of the task orchestrator: the HTTP acceptance service           *)
(* (src/app.py), the Celery worker that processes one round per message    *)
(* (src/tasks.py) and the helpers it calls (src/utils.py).                 *)
(*                                                                         *)
(* Text is modelled as a sequence of one-character strings, so that the    *)
(* character-level helpers (safe_attachment_path) compute what the code    *)
(* computes.  A file path is a sequence of segments, each a sequence of    *)
(* tokens.                                                                 *)
(***************************************************************************)
EXTENDS Integers, Sequences, FiniteSets, TLC

VARIABLES
    settings,   \* the cached Settings instance (src/config.py)
    queue,      \* the broker: payloads enqueued for orchestrate_task, FIFO
    arrivals,   \* how many requests and messages have arrived so far
    http,       \* the last answer of POST /app
    store,      \* the round-state store, one record per task identifier
    hosting,    \* the repositories that exist at the hosting provider
    artifacts,  \* the repository trees that exist under the local artifacts/
    wk,         \* one record per worker: the round it is executing
    minted,     \* how many repository names were composed so far
    call        \* a helper function applied on its own: arguments and result

vars == <<settings, queue, arrivals, http, store, hosting, artifacts, wk, minted, call>>

(***************************************************************************)
(* Bounds of the model.                                                    *)
(***************************************************************************)
MaxRequests == 2      \* messages ever put on the broker
MaxAttachments == 2   \* attachments in a list given to write_attachments
MaxPathLen == 4       \* characters in a path produced by the LLM
MaxEntries == 2       \* file entries in an LLM response
MaxSlugTail == 3      \* characters that follow the long prefix of a slugify input

(***************************************************************************)
(* Python values.                                                          *)
(***************************************************************************)
None == "<None>"

\* Python truthiness of an Optional[str].
Truthy(x) == x # None /\ x # ""

\* Python's `a or b` on Optional[str].
OrElse(a, b) == IF Truthy(a) THEN a ELSE b

(***************************************************************************)
(* Text: sequences of one-character strings.                               *)
(***************************************************************************)
WordChars == {"a", "b", "t", "x", "1", "2", "_"}      \* characters matching \w
SpaceChars == {" "}                                    \* whitespace

RECURSIVE LStripSet(_, _)
LStripSet(s, cs) ==
    IF s # <<>> /\ Head(s) \in cs THEN LStripSet(Tail(s), cs) ELSE s

RECURSIVE RStripSet(_, _)
RStripSet(s, cs) ==
    IF s # <<>> /\ s[Len(s)] \in cs THEN RStripSet(SubSeq(s, 1, Len(s) - 1), cs) ELSE s

\* str.strip(): whitespace removed at both ends.
Strip(s) == RStripSet(LStripSet(s, SpaceChars), SpaceChars)

\* re.sub(r"[^\w.\-]+", "_", s): every maximal run of characters outside
\* [\w.-] becomes one underscore.
RECURSIVE SubUnsafeRuns(_, _)
SubUnsafeRuns(s, inRun) ==
    IF s = <<>> THEN <<>>
    ELSE IF Head(s) \in WordChars \cup {".", "-"}
         THEN <<Head(s)>> \o SubUnsafeRuns(Tail(s), FALSE)
         ELSE IF inRun THEN SubUnsafeRuns(Tail(s), TRUE)
              ELSE <<"_">> \o SubUnsafeRuns(Tail(s), TRUE)

AttachmentDefault == <<"a", "t", "t", "a", "c", "h", "m", "e", "n", "t">>

safe_attachment_path(name) ==
    LET sanitized == SubUnsafeRuns(Strip(name), FALSE)
    IN  IF sanitized # <<>> THEN sanitized ELSE AttachmentDefault

(***************************************************************************)
(* Requests (src/schemas.py).                                              *)
(***************************************************************************)
Task1 == <<"t", "1">>
Task2 == <<"t", "2">>
Tasks == {Task1, Task2}

DataOk == "data:ok"          \* a data: URI that decodes
DataBad == "data:bad"        \* starts with data: but is no valid data URI
HttpUrlKind == "http"        \* anything else: fetched over HTTP

Attachment(n, u) == [name |-> n, url |-> u]

\* Attachment: name has min_length 1; url is any string.
ValidAttachment(a) == Len(a.name) >= 1

\* URL text: the scheme with its "://", the host, and the path if there is
\* one.  HttpUrl takes http and https URLs with a host.
IsHttpUrl(text) ==
    /\ Len(text) \in {2, 3}
    /\ text[1] \in {"http://", "https://"}
    /\ text[2] # ""

\* HttpUrl validation: the parsed URL; a URL without a path gets the path "/".
ParseUrl(text) ==
    [scheme |-> text[1], host |-> text[2],
     path |-> IF Len(text) = 3 THEN text[3] ELSE "/"]

\* str(url), which jsonable_encoder puts in the payload.
StrUrl(u) == <<u.scheme, u.host, u.path>>

NoUrl == [scheme |-> None, host |-> None, path |-> None]

\* No request: the fields of a TaskRequest, all empty.
NoRequest ==
    [email |-> None, secret |-> None, task |-> <<>>, round |-> 0, nonce |-> None,
     brief |-> None, checks |-> <<>>, evaluation_url |-> NoUrl, attachments |-> <<>>]

\* TaskRequest's field constraints: secret, task, nonce, brief have
\* min_length 1 (a missing field fails likewise), round >= 1, email is an
\* address, evaluation_url an http(s) URL, every attachment is valid.
ValidTaskRequest(b) ==
    /\ b.email # None /\ b.email # ""
    /\ b.secret # None /\ b.secret # ""
    /\ Len(b.task) >= 1
    /\ b.round >= 1
    /\ b.nonce # None /\ b.nonce # ""
    /\ b.brief # None /\ b.brief # ""
    /\ IsHttpUrl(b.evaluation_url)
    /\ \A i \in 1..Len(b.attachments) : ValidAttachment(b.attachments[i])

\* The fields of a TaskRequest (src/schemas.py).
RequestKeys ==
    {"email", "secret", "task", "round", "nonce", "brief", "checks",
     "evaluation_url", "attachments"}

\* jsonable_encoder(task_request): a dict with one key per field, the URL
\* as its text.
jsonable_encoder(r) ==
    [k \in RequestKeys |-> IF k = "evaluation_url" THEN StrUrl(r[k]) ELSE r[k]]

ReceivedAtKey == "_received_at"

\* The keys of the model that start with an underscore.
StartsWithUnderscore(k) == k \in {ReceivedAtKey}

\* A message that is the encoded request and nothing else.
EnqueuedBare(r) == jsonable_encoder(r)

\* payload = jsonable_encoder(task_request); payload["_received_at"] = now
Enqueued(r) == (ReceivedAtKey :> "iso-timestamp") @@ jsonable_encoder(r)

\* {k: v for k, v in payload.items() if not k.startswith("_")}
StripInternal(p) ==
    [k \in {x \in DOMAIN p : ~StartsWithUnderscore(x)} |-> p[k]]

\* checks and attachments have a default (an empty list); every other field
\* is required.
DefaultedKeys == {"checks", "attachments"}

\* The fields given, the defaults for the rest; other keys are ignored.
WithDefaults(tp) ==
    [k \in RequestKeys |-> IF k \in DOMAIN tp THEN tp[k] ELSE <<>>]

\* TaskRequest(**task_payload): the validated request, its URL parsed.
TaskRequestOf(tp) ==
    [WithDefaults(tp) EXCEPT !.evaluation_url = ParseUrl(@)]

\* TaskRequest(**task_payload) raises no ValidationError.
Revalidates(tp) ==
    /\ (RequestKeys \ DefaultedKeys) \subseteq DOMAIN tp
    /\ ValidTaskRequest(WithDefaults(tp))

(***************************************************************************)
(* slugify (src/utils.py).                                                 *)
(***************************************************************************)
SlugMaxLength == 63
SlugChars == {"a", "b", "d", "e", "g", "n", "p", "r", "t", "x", "1", "2"}   \* [a-z0-9] of the model

\* unicodedata.normalize("NFKD", c).encode("ascii", "ignore").lower()
Fold(c) ==
    CASE c = "A" -> <<"a">>
      [] c = "T" -> <<"t">>
      [] c = "e-acute" -> <<"e">>
      [] c = "sharp-s" -> <<>>
      [] OTHER -> <<c>>

RECURSIVE FoldAll(_)
FoldAll(s) == IF s = <<>> THEN <<>> ELSE Fold(Head(s)) \o FoldAll(Tail(s))

\* re.sub(r"[^a-z0-9]+", "-", s)
RECURSIVE SubNonSlugRuns(_, _)
SubNonSlugRuns(s, inRun) ==
    IF s = <<>> THEN <<>>
    ELSE IF Head(s) \in SlugChars
         THEN <<Head(s)>> \o SubNonSlugRuns(Tail(s), FALSE)
         ELSE IF inRun THEN SubNonSlugRuns(Tail(s), TRUE)
              ELSE <<"-">> \o SubNonSlugRuns(Tail(s), TRUE)

GeneratedApp == <<"g", "e", "n", "e", "r", "a", "t", "e", "d", "-", "a", "p", "p">>

Truncate(s, n) == IF Len(s) <= n THEN s ELSE SubSeq(s, 1, n)

slugify(value, max_length) ==
    LET folded == FoldAll(value)
        dashed == SubNonSlugRuns(folded, FALSE)
        trimmed == RStripSet(LStripSet(dashed, {"-"}), {"-"})
        v == IF trimmed = <<>> THEN GeneratedApp ELSE trimmed
    IN  Truncate(v, max_length)

(***************************************************************************)
(* Settings (src/config.py).  Owners are text; NoOwner stands for an       *)
(* owner that is None or empty (the code only tests its truthiness).       *)
(***************************************************************************)
NoOwner == <<>>
OwnerOrg == <<"o", "r", "g">>
OwnerSpaced == <<"m", "y", " ", "o", "r", "g">>
OwnerExample == <<"e", "x", "a", "m", "p", "l", "e">>
OwnerLogin == <<"o", "c", "t", "o">>       \* the login of the token's account

GoodToken == "ghp-good"
BadToken == "ghp-invalid"

Settings(dry, secret, token, owner, key, pipe, timeout) ==
    [dry_run |-> dry, app_secret |-> secret, github_token |-> token,
     github_owner |-> owner, openai_api_key |-> key, ai_pipe_token |-> pipe,
     pages_timeout_seconds |-> timeout]

(***************************************************************************)
(* The acceptance service (src/app.py).                                    *)
(***************************************************************************)
\* validate_secret without its dry-run exit.
validate_secret_no_dry_run(task, st) ==
    IF ~Truthy(st.app_secret) THEN "500"
    ELSE IF task.secret # st.app_secret THEN "403"
    ELSE "ok"

\* validate_secret as its docstring describes it: skipped when no secret is
\* configured or dry-run is on.
validate_secret_as_documented(task, st) ==
    IF st.dry_run \/ ~Truthy(st.app_secret) THEN "ok"
    ELSE IF task.secret # st.app_secret THEN "403"
    ELSE "ok"

\* validate_secret comparing the secrets before it looks for a configured one.
validate_secret_compare_first(task, st) ==
    IF st.dry_run THEN "ok"
    ELSE IF task.secret # st.app_secret THEN "403"
    ELSE IF ~Truthy(st.app_secret) THEN "500"
    ELSE "ok"

\* validate_secret: "ok", or the status of the HTTPException it raises.
validate_secret(task, st) ==
    IF st.dry_run THEN "ok"
    ELSE IF ~Truthy(st.app_secret) THEN "500"
    ELSE IF task.secret # st.app_secret THEN "403"
    ELSE "ok"

\* Whether validate_secret evaluates task.secret != settings.app_secret.
ComparesSecret(st) == ~st.dry_run /\ Truthy(st.app_secret)

\* The answer to the n-th arrival: its status, the secret the request
\* carried, whether the secrets were compared, whether it was enqueued.
Answer(n, status, secret, compared, enqueued, request, ack) ==
    [n |-> n, status |-> status, secret |-> secret, compared |-> compared,
     enqueued |-> enqueued, request |-> request, ack |-> ack]

\* AckResponse(received_at=now): ok defaults to True.
AckResponse == [ok |-> TRUE, received_at |-> "iso-timestamp"]

NoAck == [ok |-> FALSE, received_at |-> None]

NoAnswer == Answer(0, "none", None, FALSE, FALSE, NoRequest, NoAck)

\* POST /app with body b: request validation (422), then receive_task:
\* validate_secret, enqueue, acknowledge.
PostApp(b) ==
    /\ arrivals < MaxRequests
    /\ arrivals' = arrivals + 1
    /\ LET valid == Revalidates(b)
           task_request == IF valid THEN TaskRequestOf(b) ELSE NoRequest
           verdict == IF ~valid THEN "422" ELSE validate_secret(task_request, settings)
           compared == valid /\ ComparesSecret(settings)
       IN  /\ queue' = IF verdict = "ok" THEN Append(queue, Enqueued(task_request))
                       ELSE queue
           /\ http' = Answer(arrivals', IF verdict = "ok" THEN "200" ELSE verdict,
                             b.secret, compared, queue' # queue,
                             IF verdict = "ok" THEN task_request ELSE NoRequest,
                             IF verdict = "ok" THEN AckResponse ELSE NoAck)
    /\ UNCHANGED <<settings, store, hosting, artifacts, wk, minted, call>>

\* orchestrate_task.delay(payload) by any producer on the broker: the task
\* is registered by name and takes any JSON dict.
SendTask(p) ==
    /\ arrivals < MaxRequests
    /\ queue' = Append(queue, p)
    /\ arrivals' = arrivals + 1
    /\ UNCHANGED <<settings, http, store, hosting, artifacts, wk, minted, call>>

(***************************************************************************)
(* Files.  A path is a sequence of segments; a file map is a function from *)
(* paths to contents (a tag naming where the bytes come from).             *)
(***************************************************************************)
IndexHtml == << <<"index.html">> >>
License == << <<"LICENSE">> >>
PagesYml == << <<".github">>, <<"workflows">>, <<"pages.yml">> >>
Readme == << <<"README.md">> >>
TaskJson == << <<"task.json">> >>
LlmRawOutput == << <<"automation">>, <<"llm_raw_output.json">> >>
StylesCss == << <<"styles.css">> >>
AssetsDir == <<"assets">>

NoFiles == [p \in {} |-> ""]

\* dict.setdefault(path, content)
SetDefault(f, path, content) ==
    IF path \in DOMAIN f THEN f ELSE (path :> content) @@ f

\* d[path] = content
SetItem(f, path, content) ==
    [q \in DOMAIN f \cup {path} |-> IF q = path THEN content ELSE f[q]]

\* for key, value in g.items(): f.setdefault(key, value)
SetDefaults(f, g) ==
    [q \in DOMAIN f \cup DOMAIN g |-> IF q \in DOMAIN f THEN f[q] ELSE g[q]]

(***************************************************************************)
(* write_attachments (src/utils.py).                                       *)
(***************************************************************************)
\* decode_data_uri / httpx.get + raise_for_status: does the fetch succeed?
\* fetched says whether the HTTP fetch succeeds.
FetchSucceeds(a, fetched) ==
    IF a.url = DataOk THEN TRUE
    ELSE IF a.url = DataBad THEN FALSE
    ELSE fetched

\* target_dir / name names a directory, and not a file that can be written,
\* when name is "." (target_dir itself) or ".." (its parent).
IsDirectory(seg) == seg \in {<<".">>, <<".", ".">>}

FailedName(name) == <<"f", "a", "i", "l", "e", "d", "-">> \o safe_attachment_path(name)
                        \o <<".", "t", "x", "t">>

\* The loop of write_attachments over atts[i..], fetched[i] telling whether
\* the HTTP fetch of atts[i] succeeds: the paths saved so far, the
\* files written, and whether a write raised (write_bytes and write_text
\* are outside the try, or in its handler).
RECURSIVE WriteFrom(_, _, _, _)
WriteFrom(atts, i, fetched, acc) ==
    IF i > Len(atts) THEN acc
    ELSE LET a == atts[i]
             destination == safe_attachment_path(IF a.name # <<>> THEN a.name
                                                 ELSE AttachmentDefault)
         IN  IF ~FetchSucceeds(a, fetched[i])
             THEN LET failed == FailedName(a.name)
                  IN  IF IsDirectory(failed)
                      THEN [acc EXCEPT !.raised = TRUE]
                      ELSE WriteFrom(atts, i + 1, fetched,
                             [acc EXCEPT
                                !.paths = Append(@, <<AssetsDir, failed>>),
                                !.written = SetItem(@, <<AssetsDir, failed>>, "failure-note")])
             ELSE IF IsDirectory(destination)
                  THEN [acc EXCEPT !.raised = TRUE]
                  ELSE WriteFrom(atts, i + 1, fetched,
                         [acc EXCEPT
                            !.paths = Append(@, <<AssetsDir, destination>>),
                            !.written = SetItem(@, <<AssetsDir, destination>>, "attachment")])

write_attachments(atts, fetched) ==
    WriteFrom(atts, 1, fetched, [raised |-> FALSE, paths |-> <<>>, written |-> NoFiles])

(***************************************************************************)
(* The worker (src/tasks.py).                                              *)
(***************************************************************************)
Workers == {"w1", "w2"}

NoName == <<>>
NoState == [round |-> 0, nonce |-> None, repo_name |-> NoName, owner |-> NoOwner,
            pages_status |-> None]

MaxAttempts == 5
InitialDelay == 1
BackoffFactor == 2

\* _compose_repo_name: <slug>-r<round>-<6 hex characters of a fresh uuid4>;
\* the n-th uuid drawn stands for itself.
_compose_repo_name(task_request, n) ==
    <<slugify(task_request.task, SlugMaxLength), task_request.round, n>>

\* build_pages_url(owner, repo_name): https://<owner>.github.io/<repo>/
build_pages_url(owner, repo_name) ==
    [host |-> RStripSet(LStripSet(owner, {"/"}), {"/"}), repo |-> repo_name]

\* HttpUrl validation of a URL with this host label: no character that a
\* host name may not hold.
ValidHost(h) == h # <<>> /\ \A i \in 1..Len(h) : h[i] \notin {" ", "/"}

\* LLMGenerator._build_messages: what of the request the user message
\* holds (brief, task, round, email, nonce, checks) and the summaries of
\* the staged attachments.
_build_messages(task, attachment_summaries) ==
    [brief |-> task.brief, task |-> task.task, round |-> task.round,
     email |-> task.email, nonce |-> task.nonce, checks |-> task.checks,
     attachments |-> attachment_summaries]

NoRepoInfo == [owner |-> NoOwner, name |-> NoName, html_host |-> <<>>]
NoPayload == [email |-> None, task |-> <<>>, round |-> 0, nonce |-> None,
              repo_url |-> NoRepoInfo, pages_url |-> build_pages_url(NoOwner, NoName),
              pages_status |-> None, url |-> NoUrl]

Idle ==
    [pc |-> "idle", req |-> NoRequest, load_failed |-> FALSE, task_state |-> NoState,
     composed |-> FALSE, repo_name |-> NoName, owner |-> NoOwner,
     github |-> FALSE, released |-> FALSE, calls |-> {},
     attachment_paths |-> <<>>, staged |-> NoFiles, llm |-> "none", files |-> NoFiles,
     wrote |-> {},
     repo_info |-> NoRepoInfo, pages_url |-> build_pages_url(NoOwner, NoName),
     pages_status |-> None, now |-> 0, seen200 |-> FALSE,
     stored |-> "no", payload |-> NoPayload,
     attempt |-> 0, delay |-> 0, sent |-> <<>>, sleeps |-> <<>>, gave_up |-> FALSE,
     posts |-> <<>>, gets |-> <<>>, naps |-> <<>>,
     task_json |-> jsonable_encoder(NoRequest),
     prompt |-> _build_messages(NoRequest, <<>>)]

\* A worker is free when it runs no round: it never ran one, or its last
\* round ended (completed, returned early, was caught at the top, raised).
EndStates == {"done", "aborted", "failed", "raised"}
Free(w) == wk[w].pc \in {"idle"} \cup EndStates

\* GitHubService(settings): resolves the login of the token's account; a
\* configuration error when the token is invalid.
GitHubServiceFails(st) == st.github_token # GoodToken

\* A worker that composes a name for every round.
ChooseRepoNameFresh(task_state, task_request, n) ==
    _compose_repo_name(task_request, n)

\* task_state.get("repo_name") or _compose_repo_name(task_request)
ChooseRepoName(task_state, task_request, n) ==
    IF task_state.repo_name # NoName THEN task_state.repo_name
    ELSE _compose_repo_name(task_request, n)

\* A worker that looks at the token alone.
WantsGitHubIgnoringDryRun(st) == Truthy(st.github_token)

\* not settings.dry_run and settings.github_token
WantsGitHub(st) == ~st.dry_run /\ Truthy(st.github_token)

\* orchestrate_task, lines 141-175: strip the internal keys, re-validate,
\* look the round state up, choose repository name and owner, construct the
\* hosting client.  loaded: whether the state store answers.
Start(w, loaded) ==
    /\ Free(w)
    /\ queue # <<>>
    /\ queue' = Tail(queue)
    /\ LET task_payload == StripInternal(Head(queue))
       IN  IF ~Revalidates(task_payload)
           THEN /\ wk' = [wk EXCEPT ![w] = [Idle EXCEPT !.pc = "raised"]]
                /\ UNCHANGED minted
           ELSE LET task_request == TaskRequestOf(task_payload)
                    task_state == IF loaded THEN store[task_request.task] ELSE NoState
                    reuse == task_state.repo_name # NoName
                    repo_name == ChooseRepoName(task_state, task_request, minted + 1)
                    owner == IF task_state.owner # NoOwner THEN task_state.owner
                             ELSE IF settings.github_owner # NoOwner
                                  THEN settings.github_owner
                                  ELSE OwnerExample
                    wants_github == WantsGitHub(settings)
                    owner2 == IF wants_github /\ task_state.owner = NoOwner
                              THEN IF settings.github_owner # NoOwner
                                   THEN settings.github_owner ELSE OwnerLogin
                              ELSE owner
                    round == [Idle EXCEPT
                                !.req = task_request, !.load_failed = ~loaded,
                                !.task_state = task_state, !.composed = ~reuse,
                                !.repo_name = repo_name, !.owner = owner2,
                                !.pages_url = build_pages_url(owner2, repo_name)]
                IN  /\ minted' = IF reuse THEN minted ELSE minted + 1
                    /\ IF wants_github /\ GitHubServiceFails(settings)
                       THEN wk' = [wk EXCEPT ![w] = [round EXCEPT !.pc = "aborted",
                                                                 !.owner = owner]]
                       ELSE wk' = [wk EXCEPT ![w] = [round EXCEPT !.pc = "build",
                                                                 !.github = wants_github]]
    /\ UNCHANGED <<settings, arrivals, http, store, hosting, artifacts, call>>

(***************************************************************************)
(* Generation and the file set (orchestrate_task, lines 178-270).          *)
(***************************************************************************)
\* What LLMGenerator.generate_app may give: a generation error, or a parsed
\* file map (with index.html, or without it).
LLMErrors == {"error"}
LLMResults == {"full", "no-index", "clash"}

\* Where the attachment named "a" is staged.
AssetA == <<AssetsDir, <<"a">>>>

\* The file maps of the model's LLM results: a full site; a site without
\* index.html; a site with files at the paths the worker writes itself.
LlmFiles(result) ==
    IF result = "full"
    THEN (IndexHtml :> "llm") @@ (Readme :> "llm") @@ (License :> "llm")
    ELSE IF result = "clash"
         THEN (IndexHtml :> "llm") @@ (TaskJson :> "llm") @@ (AssetA :> "llm")
                 @@ (LlmRawOutput :> "llm") @@ (PagesYml :> "llm")
         ELSE (StylesCss :> "llm")

\* generate_static_site: the fallback site always holds index.html, and
\* here a license of its own.
generate_static_site == (IndexHtml :> "fallback") @@ (License :> "fallback")

\* render_license, render_pages_workflow, render_readme
required_defaults ==
    (License :> "default") @@ (PagesYml :> "default") @@ (Readme :> "default")

LLMConfigured(st) == Truthy(st.openai_api_key) \/ Truthy(st.ai_pipe_token)

\* Attachments that give way to a file already in the set.
RECURSIVE AttachmentsGiveWay(_, _, _, _)
AttachmentsGiveWay(f, paths, staged, i) ==
    IF i > Len(paths) THEN f
    ELSE AttachmentsGiveWay(SetDefault(f, paths[i], staged[paths[i]]), paths, staged, i + 1)

\* for relative_path in attachment_paths: files[relative_path] = read_bytes()
RECURSIVE OverwriteAttachments(_, _, _, _)
OverwriteAttachments(f, paths, staged, i) ==
    IF i > Len(paths) THEN f
    ELSE OverwriteAttachments(SetItem(f, paths[i], staged[paths[i]]), paths, staged, i + 1)

\* A worker that never supplements.
SupplementIndexSkipped(f) == f

\* The supplement with the fallback site when index.html is missing.
SupplementIndex(f) ==
    IF IndexHtml \notin DOMAIN f THEN SetDefaults(f, generate_static_site) ELSE f

\* files_to_publish as lines 211-270 build it from llm_result (has_llm:
\* whether there is one; llm_files: its files).
FilesFrom(has_llm, llm_files, attachment_paths, staged) ==
    LET base == IF has_llm THEN llm_files ELSE generate_static_site
        with_raw == IF has_llm THEN SetDefault(base, LlmRawOutput, "llm-raw") ELSE base
        with_defaults == SetDefaults(with_raw, required_defaults)
        with_index == SupplementIndex(with_defaults)
        with_attachments == OverwriteAttachments(with_index, attachment_paths, staged, 1)
    IN  SetItem(with_attachments, TaskJson, "task-request")

\* files_to_publish for the generator outcomes of the model; llm is the
\* outcome ("none": not configured).
FilesToPublish(llm, attachment_paths, staged) ==
    FilesFrom(llm \in LLMResults, LlmFiles(llm), attachment_paths, staged)

\* Lines 178-270: stage the attachments, generate (the prompt is built
\* from the request), build the file set; task_json is what line 267
\* writes to task.json.  A failure of write_attachments is caught at line
\* 375.
Build(w, fetched, llm) ==
    /\ wk[w].pc = "build"
    /\ Len(fetched) = Len(wk[w].req.attachments)
    /\ llm \in (IF LLMConfigured(settings) THEN LLMErrors \cup LLMResults ELSE {"none"})
    /\ LET wa == write_attachments(wk[w].req.attachments, fetched)
       IN  IF wa.raised
           THEN wk' = [wk EXCEPT ![w].pc = "failed"]
           ELSE wk' = [wk EXCEPT ![w].pc = "publish",
                                 ![w].attachment_paths = wa.paths,
                                 ![w].staged = wa.written,
                                 ![w].llm = llm,
                                 ![w].prompt = IF llm = "none" THEN @
                                               ELSE _build_messages(wk[w].req, wa.paths),
                                 ![w].files = FilesToPublish(llm, wa.paths, wa.written),
                                 ![w].task_json = jsonable_encoder(wk[w].req)]
    /\ UNCHANGED <<settings, queue, arrivals, http, store, hosting, artifacts, minted, call>>

(***************************************************************************)
(* Publishing (orchestrate_task, lines 272-308).                           *)
(***************************************************************************)
MaxGetTime == 1            \* the longest a GET of the pages URL takes, in ticks
PollInterval == 1          \* settings.pages_poll_interval, in ticks
PollTimeout == 2           \* the non-zero settings.pages_timeout_seconds

\* The owner the hosting service creates repositories under: the configured
\* account, else the authenticated login.
ServiceOwner(st) == IF st.github_owner # NoOwner THEN st.github_owner ELSE OwnerLogin

\* What the hosting calls of a round may do: all succeed; ensure_repo,
\* push_files or ensure_pages_enabled raises; or ensure_pages_enabled is
\* rejected with an HTTPStatusError, which is logged.
HostingOutcomes ==
    {"ok", "ensure_repo-raises", "push_files-raises", "pages-rejected", "pages-raises"}

\* The hosting calls made under each outcome.
HostingCalls(outcome) ==
    CASE outcome = "ensure_repo-raises" -> {"ensure_repo"}
      [] outcome = "push_files-raises" -> {"ensure_repo", "push_files"}
      [] OTHER -> {"ensure_repo", "push_files", "ensure_pages_enabled"}

\* Lines 276-298: with github_service: ensure_repo, push_files,
\* ensure_pages_enabled.  An exception leaves the with block (the client is
\* released) and is caught at line 375.
PublishRemote(w, outcome) ==
    /\ wk[w].pc = "publish"
    /\ wk[w].github
    /\ outcome \in HostingOutcomes
    /\ LET repo_info == [owner |-> ServiceOwner(settings), name |-> wk[w].repo_name,
                         html_host |-> <<"g", "i", "t", "h", "u", "b">>]
           created == outcome # "ensure_repo-raises"
           raised == outcome \in {"ensure_repo-raises", "push_files-raises", "pages-raises"}
       IN  /\ hosting' = IF created
                         THEN hosting \cup {[owner |-> repo_info.owner,
                                              name |-> repo_info.name,
                                              task |-> wk[w].req.task]}
                         ELSE hosting
           /\ IF raised
              THEN wk' = [wk EXCEPT ![w].pc = "failed",
                                    ![w].released = TRUE,
                                    ![w].calls = HostingCalls(outcome)]
              ELSE wk' = [wk EXCEPT ![w].pc = "poll",
                                    ![w].calls = HostingCalls(outcome),
                                    ![w].repo_info = repo_info,
                                    ![w].pages_url =
                                        build_pages_url(repo_info.owner, repo_info.name),
                                    ![w].pages_status = "pending",
                                    ![w].now = 0]
    /\ UNCHANGED <<settings, queue, arrivals, http, store, artifacts, minted, call>>

\* Lines 305-308: _persist_local_repo writes every file under
\* artifacts/<repo_name>/.
PublishLocal(w) ==
    /\ wk[w].pc = "publish"
    /\ ~wk[w].github
    /\ LET repo_info == [owner |-> wk[w].owner, name |-> wk[w].repo_name,
                         html_host |-> OwnerExample]
       IN  /\ artifacts' = artifacts \cup {[owner |-> wk[w].owner,
                                              name |-> wk[w].repo_name,
                                              task |-> wk[w].req.task]}
           /\ wk' = [wk EXCEPT ![w].pc = "persist",
                               ![w].wrote = DOMAIN wk[w].files,
                               ![w].repo_info = repo_info,
                               ![w].pages_url = build_pages_url(wk[w].owner, wk[w].repo_name),
                               ![w].pages_status = "dry-run"]
    /\ UNCHANGED <<settings, queue, arrivals, http, store, hosting, minted, call>>

\* httpx.get(url, timeout=10.0) issued at a time, and what came back.
Get(at, answer) == [at |-> at, answer |-> answer]

\* A poll that takes any answer for readiness.
PollAnyAnswerReady(w, answer, took) ==
    /\ wk[w].pc = "poll"
    /\ wk[w].now < settings.pages_timeout_seconds
    /\ took \in 0..MaxGetTime
    /\ wk' = [wk EXCEPT ![w].pc = "persist",
                        ![w].calls = @ \cup {"poll"},
                        ![w].gets = Append(@, Get(wk[w].now, answer)),
                        ![w].now = @ + took,
                        ![w].released = TRUE,
                        ![w].pages_status = "ready"]
    /\ UNCHANGED <<settings, queue, arrivals, http, store, hosting, artifacts, minted, call>>

\* _wait_for_pages, one turn of its loop before the deadline: GET the pages
\* URL, which takes some time; return "ready" on a 200, sleep the interval
\* on anything else (another status, a network error).
Poll(w, answer, took) ==
    /\ wk[w].pc = "poll"
    /\ wk[w].now < settings.pages_timeout_seconds
    /\ answer \in {"200", "404", "network-error"}
    /\ took \in 0..MaxGetTime
    /\ IF answer = "200"
       THEN wk' = [wk EXCEPT ![w].pc = "persist",
                             ![w].calls = @ \cup {"poll"},
                             ![w].gets = Append(@, Get(wk[w].now, answer)),
                             ![w].now = @ + took,
                             ![w].seen200 = TRUE,
                             ![w].released = TRUE,
                             ![w].pages_status = "ready"]
       ELSE wk' = [wk EXCEPT ![w].calls = @ \cup {"poll"},
                             ![w].gets = Append(@, Get(wk[w].now, answer)),
                             ![w].naps = Append(@, PollInterval),
                             ![w].now = @ + took + PollInterval]
    /\ UNCHANGED <<settings, queue, arrivals, http, store, hosting, artifacts, minted, call>>

\* A loop that takes a new deadline when the old one has passed.
PollExpireRestart(w) ==
    /\ wk[w].pc = "poll"
    /\ ~(wk[w].now < settings.pages_timeout_seconds)
    /\ wk' = [wk EXCEPT ![w].now = 0, ![w].gets = <<>>, ![w].naps = <<>>]
    /\ UNCHANGED <<settings, queue, arrivals, http, store, hosting, artifacts, minted, call>>

\* _wait_for_pages once the deadline has passed: return "pending".
PollExpire(w) ==
    /\ wk[w].pc = "poll"
    /\ ~(wk[w].now < settings.pages_timeout_seconds)
    /\ wk' = [wk EXCEPT ![w].pc = "persist",
                        ![w].released = TRUE,
                        ![w].pages_status = "pending"]
    /\ UNCHANGED <<settings, queue, arrivals, http, store, hosting, artifacts, minted, call>>

(***************************************************************************)
(* Round state and callback (orchestrate_task, lines 310-374).             *)
(***************************************************************************)
\* persisted_state of lines 310-321 (the fields the rounds read back, and
\* those that identify the round that wrote it).
PersistedState(r) ==
    [round |-> r.req.round, nonce |-> r.req.nonce, repo_name |-> r.repo_info.name,
     owner |-> r.repo_info.owner, pages_status |-> r.pages_status]

\* A callback that echoes the round and nonce of the stored record.
CallbackPayloadFromState(r) ==
    [email |-> r.req.email, task |-> r.req.task, round |-> r.task_state.round,
     nonce |-> r.task_state.nonce, repo_url |-> r.repo_info, pages_url |-> r.pages_url,
     pages_status |-> r.pages_status, url |-> r.req.evaluation_url]

\* callback_payload of lines 324-333, and the URL it is POSTed to.
CallbackPayload(r) ==
    [email |-> r.req.email, task |-> r.req.task, round |-> r.req.round,
     nonce |-> r.req.nonce, repo_url |-> r.repo_info, pages_url |-> r.pages_url,
     pages_status |-> r.pages_status, url |-> r.req.evaluation_url]

\* CallbackPayload(**callback_payload) raises no ValidationError: repo_url
\* and pages_url are http(s) URLs.
CallbackValidates(pl) == ValidHost(pl.repo_url.html_host) /\ ValidHost(pl.pages_url.host)

\* A worker that goes on to the callback without storing the round state.
PersistSkipped(w, written) ==
    /\ wk[w].pc = "persist"
    /\ wk' = [wk EXCEPT ![w].pc = "callback",
                        ![w].files = NoFiles, ![w].staged = NoFiles,
                        ![w].attachment_paths = <<>>,
                        ![w].gets = <<>>, ![w].naps = <<>>, ![w].now = 0,
                        ![w].payload = CallbackPayload(wk[w]),
                        ![w].attempt = 0,
                        ![w].delay = InitialDelay]
    /\ UNCHANGED <<settings, queue, arrivals, http, store, hosting, artifacts, minted, call>>

\* A worker that abandons the round when the store does not take the write.
PersistOrAbort(w, written) ==
    /\ wk[w].pc = "persist"
    /\ store' = IF written
                THEN [store EXCEPT ![wk[w].req.task] = PersistedState(wk[w])]
                ELSE store
    /\ LET pl == CallbackPayload(wk[w])
       IN  IF written /\ CallbackValidates(pl)
           THEN wk' = [wk EXCEPT ![w].pc = "callback",
                                 ![w].files = NoFiles, ![w].staged = NoFiles,
                                 ![w].attachment_paths = <<>>,
                                 ![w].gets = <<>>, ![w].naps = <<>>, ![w].now = 0,
                                 ![w].stored = "written",
                                 ![w].payload = pl,
                                 ![w].attempt = 0,
                                 ![w].delay = InitialDelay]
           ELSE wk' = [wk EXCEPT ![w].pc = "failed",
                                 ![w].files = NoFiles, ![w].staged = NoFiles,
                                 ![w].attachment_paths = <<>>,
                                 ![w].gets = <<>>, ![w].naps = <<>>, ![w].now = 0,
                                 ![w].stored = IF written THEN "written" ELSE "lost"]
    /\ UNCHANGED <<settings, queue, arrivals, http, hosting, artifacts, minted, call>>

\* Lines 310-344: _store_task_state (a failure of the store is logged),
\* then the callback payload is built and validated; a validation error is
\* caught at line 375.  written: whether the store takes the write.  What
\* only the steps before needed (the file set, the polling's clock and
\* GETs) is dropped here.
Persist(w, written) ==
    /\ wk[w].pc = "persist"
    /\ store' = IF written
                THEN [store EXCEPT ![wk[w].req.task] = PersistedState(wk[w])]
                ELSE store
    /\ LET pl == CallbackPayload(wk[w])
       IN  IF CallbackValidates(pl)
           THEN wk' = [wk EXCEPT ![w].pc = "callback",
                                 ![w].files = NoFiles, ![w].staged = NoFiles,
                                 ![w].attachment_paths = <<>>,
                                 ![w].gets = <<>>, ![w].naps = <<>>, ![w].now = 0,
                                 ![w].stored = IF written THEN "written" ELSE "lost",
                                 ![w].payload = pl,
                                 ![w].attempt = 0,
                                 ![w].delay = InitialDelay]
           ELSE wk' = [wk EXCEPT ![w].pc = "failed",
                                 ![w].files = NoFiles, ![w].staged = NoFiles,
                                 ![w].attachment_paths = <<>>,
                                 ![w].gets = <<>>, ![w].naps = <<>>, ![w].now = 0,
                                 ![w].stored = IF written THEN "written" ELSE "lost"]
    /\ UNCHANGED <<settings, queue, arrivals, http, hosting, artifacts, minted, call>>

\* A backoff that adds instead of doubling.
NextDelayLinear(delay) == delay + 1

\* delay *= 2
NextDelay(delay) == delay * BackoffFactor

\* httpx.post(str(task_request.evaluation_url), json=notify_payload)
Post(task_request, notify_payload) ==
    [to |-> task_request.evaluation_url, body |-> notify_payload]

\* A callback loop that does not break on success.
CallbackNoBreak(w, delivered) ==
    /\ wk[w].pc = "callback"
    /\ wk[w].attempt < MaxAttempts
    /\ LET attempt == wk[w].attempt + 1
       IN  wk' = [wk EXCEPT ![w].pc = IF attempt < MaxAttempts THEN "callback" ELSE "done",
                            ![w].attempt = attempt,
                            ![w].sent = Append(@, delivered),
                            ![w].posts = Append(@, Post(wk[w].req, wk[w].payload)),
                            ![w].sleeps = IF delivered THEN @ ELSE Append(@, wk[w].delay),
                            ![w].delay = IF delivered THEN @ ELSE NextDelay(@)]
    /\ UNCHANGED <<settings, queue, arrivals, http, store, hosting, artifacts, minted, call>>

\* One turn of the callback loop, lines 345-374: POST, break on a 2xx;
\* else sleep the delay and double it; after max_attempts failures the
\* else branch of the while logs the error.
Callback(w, delivered) ==
    /\ wk[w].pc = "callback"
    /\ wk[w].attempt < MaxAttempts
    /\ LET attempt == wk[w].attempt + 1
       IN  IF delivered
           THEN wk' = [wk EXCEPT ![w].pc = "done",
                                 ![w].attempt = attempt,
                                 ![w].sent = Append(@, TRUE),
                                 ![w].posts = Append(@, Post(wk[w].req, wk[w].payload))]
           ELSE wk' = [wk EXCEPT ![w].pc = IF attempt < MaxAttempts THEN "callback"
                                           ELSE "done",
                                 ![w].attempt = attempt,
                                 ![w].sent = Append(@, FALSE),
                                 ![w].posts = Append(@, Post(wk[w].req, wk[w].payload)),
                                 ![w].sleeps = Append(@, wk[w].delay),
                                 ![w].delay = NextDelay(@),
                                 ![w].gave_up = ~(attempt < MaxAttempts)]
    /\ UNCHANGED <<settings, queue, arrivals, http, store, hosting, artifacts, minted, call>>


(***************************************************************************)
(* The system: requests, settings, the next-state relations.               *)
(***************************************************************************)
AppSecret == "s1"

\* The callers of the model: each has its email, nonce and evaluation URL.
Callers == {"n1", "n2"}
EmailOf(n) == IF n = "n1" THEN "a@example.org" ELSE "b@example.org"
UrlOf(n) ==
    IF n = "n1" THEN <<"https://", "eval.example">>
    ELSE <<"https://", "grader.example", "/notify">>

Body(task, round, caller, secret, atts) ==
    [email |-> EmailOf(caller), secret |-> secret, task |-> task, round |-> round,
     nonce |-> caller, brief |-> "brief", checks |-> <<>>,
     evaluation_url |-> UrlOf(caller), attachments |-> atts]

\* A body that leaves out the fields that have a default.
Sparse(b) == [k \in RequestKeys \ DefaultedKeys |-> b[k]]

OneAttachment == <<Attachment(<<"a">>, DataOk)>>
DotDotAttachment == <<Attachment(<<".", ".">>, DataOk)>>

\* The request bodies POSTed to /app while workers run: two rounds of one
\* task, a round of another task, with and without attachments, and one
\* with another secret.
Bodies ==
    {Sparse(Body(Task1, 1, "n1", AppSecret, <<>>)),
     Body(Task1, 2, "n2", AppSecret, OneAttachment),
     Body(Task2, 1, "n1", AppSecret, DotDotAttachment),
     Body(Task2, 1, "n2", "s2", <<>>)}

\* A payload that is no valid TaskRequest (round 0), as another producer may
\* send it.
ForeignPayloads == {Body(Task1, 0, "n1", AppSecret, <<>>)}

\* The settings the workers run under: local and hosted publishing, with
\* and without LLM credentials, every kind of owner and token.
SystemSettings ==
    {Settings(FALSE, AppSecret, None, NoOwner, None, None, PollTimeout),
     Settings(FALSE, AppSecret, "", OwnerSpaced, "sk-key", None, PollTimeout),
     Settings(TRUE, AppSecret, GoodToken, OwnerOrg, None, "pipe-token", PollTimeout),
     Settings(FALSE, AppSecret, GoodToken, NoOwner, "sk-key", None, PollTimeout),
     Settings(FALSE, AppSecret, GoodToken, OwnerOrg, None, None, 0),
     Settings(FALSE, AppSecret, BadToken, NoOwner, None, None, PollTimeout)}

NoCall == [state |-> "none"]

InitWith(S) ==
    /\ settings \in S
    /\ queue = <<>>
    /\ arrivals = 0
    /\ http = NoAnswer
    /\ store = [t \in Tasks |-> NoState]
    /\ hosting = {}
    /\ artifacts = {}
    /\ wk = [w \in Workers |-> Idle]
    /\ minted = 0
    /\ call = NoCall

Init == InitWith(SystemSettings)

\* One worker process takes the rounds one after the other; every call to
\* the outside may fail.
Next ==
    \/ \E b \in Bodies : PostApp(b)
    \/ \E p \in ForeignPayloads : SendTask(p)
    \/ \E loaded \in BOOLEAN : Start("w1", loaded)
    \/ \E fetched \in UNION {[1..n -> BOOLEAN] : n \in 0..1},
          llm \in LLMErrors \cup LLMResults \cup {"none"} : Build("w1", fetched, llm)
    \/ \E outcome \in HostingOutcomes : PublishRemote("w1", outcome)
    \/ PublishLocal("w1")
    \/ \E answer \in {"200", "404", "network-error"}, took \in 0..MaxGetTime :
          Poll("w1", answer, took)
    \/ PollExpire("w1")
    \/ \E written \in BOOLEAN : Persist("w1", written)
    \/ \E delivered \in BOOLEAN : Callback("w1", delivered)

Spec == Init /\ [][Next]_vars

(***************************************************************************)
(* The acceptance service on its own: every kind of configured secret,     *)
(* requests whose secret is right, wrong, empty or missing.                *)
(***************************************************************************)
AcceptSettings ==
    {Settings(dry, secret, None, NoOwner, None, None, PollTimeout) :
        dry \in BOOLEAN, secret \in {None, "", AppSecret}}

\* All fields but the secret are valid in these bodies; None is a body with
\* no secret field.
AcceptBodies ==
    {Body(Task1, r, c, sec, a) :
        r \in {1, 2}, c \in Callers, sec \in {None, "", AppSecret, "s2"},
        a \in {<<>>, OneAttachment}}

InitAccept == InitWith(AcceptSettings)

NextAccept == \E b \in AcceptBodies : PostApp(b)

SpecAccept == InitAccept /\ [][NextAccept]_vars

\* The n-th arrival was a POST /app (the last answer is its answer).
Answered == http.n > 0 /\ http.n = arrivals

C5_AsClaimed ==
    (Answered /\ settings.dry_run) => (http.status = "200" /\ http.enqueued)

\* C5, amended: with dry-run on the secrets are never compared, and a
\* request succeeds and is enqueued exactly when it carries a non-empty
\* secret, right or wrong, whether or not a shared secret is configured; a
\* request with a missing or empty secret is answered 422 and not enqueued.
C5_DryRunSkipsComparison ==
    (Answered /\ settings.dry_run) =>
        /\ ~http.compared
        /\ Truthy(http.secret) => (http.status = "200" /\ http.enqueued)
        /\ ~Truthy(http.secret) => (http.status = "422" /\ ~http.enqueued)

C5_Witness ==
    /\ Answered /\ settings.dry_run /\ settings.app_secret = AppSecret
    /\ http.secret = "s2" /\ http.status = "200" /\ http.enqueued

(***************************************************************************)
(* Properties of a round.                                                  *)
(***************************************************************************)
AllFailed(sent) == \A i \in 1..Len(sent) : ~sent[i]

\* C1: when every callback POST of a round fails, the loop makes exactly 5
\* POSTs, sleeping 1, 2, 4, 8 and 16 seconds after them, then logs the
\* error, and the round completes without raising.
C1_CallbackRetry ==
    \A w \in Workers :
        (wk[w].sent # <<>> /\ AllFailed(wk[w].sent)) =>
            /\ wk[w].pc \in {"callback", "done"}
            /\ wk[w].sleeps = SubSeq(<<1, 2, 4, 8, 16>>, 1, Len(wk[w].sent))
            /\ wk[w].attempt = Len(wk[w].sent)
            /\ wk[w].pc = "done" <=> Len(wk[w].sent) = 5
            /\ wk[w].pc = "done" <=> wk[w].gave_up

C1_Witness ==
    \E w \in Workers :
        /\ wk[w].pc = "done" /\ wk[w].gave_up
        /\ Len(wk[w].sent) = 5 /\ AllFailed(wk[w].sent)
        /\ wk[w].sleeps = <<1, 2, 4, 8, 16>>

\* The round of worker w read a stored record at its start.
FoundState(w) ==
    /\ wk[w].pc \notin {"idle", "raised"}
    /\ ~wk[w].load_failed
    /\ wk[w].task_state.repo_name # NoName

Published(w) == wk[w].pc \in {"poll", "persist", "callback", "done"}

\* C2: a round that follows a completed round of the same task, with the
\* state store working, reads the record that round persisted and reuses
\* its repository name and owner: it composes no name, it publishes to
\* that repository, and its record and callback name that repository.
C2_RoundStateReuse ==
    \A w \in Workers :
        FoundState(w) =>
            /\ ~wk[w].composed
            /\ wk[w].repo_name = wk[w].task_state.repo_name
            /\ Published(w) =>
                  /\ wk[w].repo_info.name = wk[w].task_state.repo_name
                  /\ wk[w].repo_info.owner = wk[w].task_state.owner
                  /\ wk[w].pages_url =
                        build_pages_url(wk[w].task_state.owner, wk[w].task_state.repo_name)
            /\ wk[w].pc \in {"callback", "done"} =>
                  /\ wk[w].payload.repo_url.name = wk[w].task_state.repo_name
                  /\ wk[w].payload.repo_url.owner = wk[w].task_state.owner
            /\ wk[w].stored = "written" =>
                  /\ store[wk[w].req.task].repo_name = wk[w].task_state.repo_name
                  /\ store[wk[w].req.task].owner = wk[w].task_state.owner

C2_Witness ==
    \E w \in Workers :
        /\ FoundState(w) /\ wk[w].pc = "done" /\ wk[w].stored = "written"
        /\ wk[w].task_state.round = 1 /\ wk[w].req.round = 2
        /\ wk[w].sent # <<>> /\ wk[w].sent[Len(wk[w].sent)]

\* No hosting client is constructed: dry-run, or no hosting token.
LocalMode == settings.dry_run \/ ~Truthy(settings.github_token)

\* C6: in dry-run or without a hosting token the worker constructs no
\* hosting client and makes no hosting or polling call, writes exactly the
\* file set under artifacts/<repo-name>/, and persists and reports the
\* status "dry-run"; the status is "dry-run" only then, and "ready" or
\* "pending" whenever a hosting client published.
C6_DryRunPublishesLocally ==
    \A w \in Workers :
        /\ (LocalMode /\ wk[w].pc \notin {"idle", "raised"}) =>
              /\ ~wk[w].github /\ wk[w].calls = {}
              /\ wk[w].pc = "persist" =>
                    /\ wk[w].wrote = DOMAIN wk[w].files
                    /\ \E a \in artifacts : a.name = wk[w].repo_name
              /\ Published(w) => wk[w].pages_status = "dry-run"
              /\ wk[w].pc \in {"callback", "done"} =>
                    wk[w].payload.pages_status = "dry-run"
              /\ wk[w].stored = "written" =>
                    store[wk[w].req.task].pages_status = "dry-run"
        /\ (wk[w].pages_status = "dry-run" \/ wk[w].payload.pages_status = "dry-run")
              => (LocalMode /\ ~wk[w].github)
        /\ (wk[w].github /\ wk[w].pc \in {"persist", "callback", "done"}) =>
              /\ wk[w].pages_status \in {"ready", "pending"}
              /\ wk[w].wrote = {}
        /\ (wk[w].github /\ wk[w].pc \in {"callback", "done"}) =>
              wk[w].payload.pages_status \in {"ready", "pending"}
        /\ \A t \in Tasks : store[t].pages_status = "dry-run" => LocalMode

C6_Witness ==
    \E w \in Workers :
        /\ settings.dry_run /\ Truthy(settings.github_token)
        /\ wk[w].pc = "done" /\ wk[w].stored = "written"
        /\ wk[w].payload.pages_status = "dry-run"
        /\ store[wk[w].req.task].pages_status = "dry-run"

RequiredFiles == {IndexHtml, License, PagesYml, Readme, TaskJson}

\* C7: the file set of every round that reaches publishing holds
\* index.html, LICENSE, .github/workflows/pages.yml, README.md and
\* task.json, whatever the LLM did (succeeded, failed, left index.html
\* out, was not configured).
C7_CompleteFileSet ==
    \A w \in Workers :
        wk[w].pc \in {"publish", "poll", "persist"} =>
            RequiredFiles \subseteq DOMAIN wk[w].files

C7_Witness ==
    \E w \in Workers :
        /\ wk[w].pc = "poll" /\ wk[w].llm = "no-index"
        /\ wk[w].files[IndexHtml] = "fallback"

\* C8 as claimed: an abandoned round (hosting-configuration failure, or a
\* failure caught at the top of the round) has made no callback POST and
\* has not changed the persisted round state.
C8_AbandonedLeavesNoTrace ==
    \A w \in Workers :
        wk[w].pc \in {"aborted", "failed"} =>
            (wk[w].sent = <<>> /\ wk[w].stored = "no")

\* C9 as claimed: no exception leaves orchestrate_task.
C9_NeverPropagates == \A w \in Workers : wk[w].pc # "raised"

(***************************************************************************)
(* Two worker processes taking rounds from the same broker.  The calls to  *)
(* the outside are kept to what decides which repository a round uses: no  *)
(* attachments, no LLM, a state store that takes every write, callbacks    *)
(* that are delivered.                                                     *)
(***************************************************************************)
ConcurrentSettings ==
    {Settings(FALSE, AppSecret, None, NoOwner, None, None, PollTimeout),
     Settings(FALSE, AppSecret, GoodToken, NoOwner, None, None, PollTimeout)}

ConcurrentBodies ==
    {Body(Task1, 1, "n1", AppSecret, <<>>),
     Body(Task1, 2, "n2", AppSecret, <<>>),
     Body(Task2, 1, "n1", AppSecret, <<>>)}

InitConcurrent == InitWith(ConcurrentSettings)

NextConcurrent ==
    \/ \E b \in ConcurrentBodies : PostApp(b)
    \/ \E w \in Workers, loaded \in BOOLEAN : Start(w, loaded)
    \/ \E w \in Workers : Build(w, <<>>, "none")
    \/ \E w \in Workers, outcome \in {"ok", "push_files-raises"} : PublishRemote(w, outcome)
    \/ \E w \in Workers : PublishLocal(w)
    \/ \E w \in Workers, answer \in {"200", "404"} : Poll(w, answer, 0)
    \/ \E w \in Workers : PollExpire(w)
    \/ \E w \in Workers : Persist(w, TRUE)
    \/ \E w \in Workers : Callback(w, TRUE)

SpecConcurrent == InitConcurrent /\ [][NextConcurrent]_vars

\* The repositories that exist, remote and local.
Repositories == hosting \cup artifacts

\* C3 as claimed: under every interleaving all the rounds of a task use one
\* repository: no task ever has two repositories.
C3_OneRepositoryPerTask ==
    \A a, b \in Repositories :
        a.task = b.task => (a.name = b.name /\ a.owner = b.owner)

\* C3, amended: a round that reads a stored record of its task at its start
\* publishes to the repository that record names and creates no new one;
\* rounds that read no record (the task's first round, a round running
\* beside it, a round after an abandoned one, a failed read) each compose a
\* name of their own.
C3_ReuseCreatesNoRepository ==
    [][\A w \in Workers :
          (wk[w].pc = "publish" /\ wk'[w].pc # "publish") =>
              /\ FoundState(w) =>
                    /\ Repositories' = Repositories
                    /\ \E a \in Repositories :
                          /\ a.task = wk[w].req.task
                          /\ a.name = wk[w].task_state.repo_name
                          /\ a.owner = wk[w].task_state.owner
                    /\ Published(w)' =>
                          /\ wk'[w].repo_info.name = wk[w].task_state.repo_name
                          /\ wk'[w].repo_info.owner = wk[w].task_state.owner
              /\ ~FoundState(w) => wk[w].composed
    ]_vars

\* The first round of a task composed a name and completed on one worker;
\* a later round of the task, on the other worker, read its record and has
\* published to the same repository, the only one the task has.
C3_Witness ==
    \E w, v \in Workers :
        /\ w # v /\ wk[w].req.task = wk[v].req.task
        /\ FoundState(w) /\ Published(w)
        /\ wk[v].composed /\ wk[v].pc = "done"
        /\ Cardinality({a \in Repositories : a.task = wk[w].req.task}) = 1

(***************************************************************************)
(* write_attachments applied on its own to lists of attachments.           *)
(***************************************************************************)
AttachmentNames ==
    {<<"a">>, <<"a", ".", "t", "x", "t">>, <<"a", "/", "b">>, <<" ", "a", " ">>,
     <<".">>, <<".", ".">>}

AttachmentUrls == {DataOk, DataBad, HttpUrlKind}

AttachmentLists ==
    UNION {[1..n -> {Attachment(nm, u) : nm \in AttachmentNames, u \in AttachmentUrls}]
             : n \in 0..MaxAttachments}

InitAttach ==
    /\ settings \in {Settings(FALSE, AppSecret, None, NoOwner, None, None, PollTimeout)}
    /\ queue = <<>>
    /\ arrivals = 0
    /\ http = NoAnswer
    /\ store = [t \in Tasks |-> NoState]
    /\ hosting = {}
    /\ artifacts = {}
    /\ wk = [w \in Workers |-> Idle]
    /\ minted = 0
    /\ call \in {[state |-> "called", atts |-> atts] : atts \in AttachmentLists}

\* write_attachments(attachments, target_dir) runs to its return or to the
\* exception it lets out; fetched[i] is what the server of an HTTP URL does.
WriteAttachmentsCall(fetched) ==
    /\ call.state = "called"
    /\ DOMAIN fetched = DOMAIN call.atts
    /\ LET result == write_attachments(call.atts, fetched)
       IN  call' = [state |-> "returned", atts |-> call.atts, fetched |-> fetched,
                    raised |-> result.raised, paths |-> result.paths,
                    written |-> result.written]
    /\ UNCHANGED <<settings, queue, arrivals, http, store, hosting, artifacts, wk, minted>>

NextAttach ==
    \E n \in 0..MaxAttachments : \E fetched \in [1..n -> BOOLEAN] :
        WriteAttachmentsCall(fetched)

SpecAttach == InitAttach /\ [][NextAttach]_vars

\* C10: write_attachments raises for no list of attachments; it returns one
\* path per attachment, in input order: the sanitised name under assets/
\* when the fetch succeeded, the failed-<name>.txt placeholder, which it
\* wrote, when the fetch or the decoding failed.
C10_AttachmentsNeverRaise ==
    call.state = "returned" =>
        /\ ~call.raised
        /\ Len(call.paths) = Len(call.atts)
        /\ \A i \in DOMAIN call.atts :
              LET a == call.atts[i]
              IN  IF FetchSucceeds(a, call.fetched[i])
                  THEN call.paths[i] = <<AssetsDir, safe_attachment_path(a.name)>>
                  ELSE /\ call.paths[i] = <<AssetsDir, FailedName(a.name)>>
                       /\ call.paths[i] \in DOMAIN call.written

(***************************************************************************)
(* _sanitise_path (src/services/llm_generator.py) applied on its own.      *)
(***************************************************************************)
\* str.split(sep): the segments between the separators, empty ones kept.
RECURSIVE SplitOn(_, _, _)
SplitOn(s, sep, cur) ==
    IF s = <<>> THEN <<cur>>
    ELSE IF Head(s) = sep THEN <<cur>> \o SplitOn(Tail(s), sep, <<>>)
         ELSE SplitOn(Tail(s), sep, Append(cur, Head(s)))

\* PurePosixPath(candidate).parts for a candidate that does not start with
\* "/": the segments, without the empty ones and the "." ones, which
\* pathlib drops when it parses.
PurePosixParts(candidate) ==
    SelectSeq(SplitOn(candidate, "/", <<>>), LAMBDA seg : seg # <<>> /\ seg # <<".">>)

\* "/".join(parts)
RECURSIVE JoinSlash(_)
JoinSlash(parts) ==
    IF parts = <<>> THEN <<>>
    ELSE IF Len(parts) = 1 THEN parts[1]
         ELSE parts[1] \o <<"/">> \o JoinSlash(Tail(parts))

\* A sanitiser without the test of the parts.
_sanitise_path_untested(path) ==
    LET candidate == LStripSet(Strip(path), {".", "/"})
    IN  IF candidate = <<>> THEN [raised |-> "empty", value |-> <<>>]
        ELSE [raised |-> "none", value |-> JoinSlash(PurePosixParts(candidate))]

\* _sanitise_path(path): the generation error it raises ("none" when it
\* returns) and the value it returns.
_sanitise_path(path) ==
    LET candidate == LStripSet(Strip(path), {".", "/"})
        parts == PurePosixParts(candidate)
    IN  IF candidate = <<>> THEN [raised |-> "empty", value |-> <<>>]
        ELSE IF \E i \in DOMAIN parts : parts[i] \in {<<".", ".">>, <<>>}
             THEN [raised |-> "unsafe", value |-> <<>>]
             ELSE [raised |-> "none", value |-> JoinSlash(parts)]

PathAlphabet == {"a", ".", "/", " "}

RECURSIVE TextsUpTo(_, _)
TextsUpTo(cs, n) ==
    IF n = 0 THEN {<<>>}
    ELSE LET shorter == TextsUpTo(cs, n - 1)
         IN  shorter \cup {Append(t, c) : t \in shorter, c \in cs}

PathABC == <<"a", "/", "b", "/", "c", ".", "h", "t", "m", "l">>

PathPagesYml ==
    <<".", "g", "i", "t", "h", "u", "b", "/", "w", "o", "r", "k", "f", "l", "o", "w", "s",
      "/", "p", "a", "g", "e", "s", ".", "y", "m", "l">>

SanitiseInputs == TextsUpTo(PathAlphabet, MaxPathLen) \cup {PathABC, PathPagesYml}

\* Every variable but call, as in Init.
InitCalls(C) ==
    /\ settings \in {Settings(FALSE, AppSecret, None, NoOwner, None, None, PollTimeout)}
    /\ queue = <<>>
    /\ arrivals = 0
    /\ http = NoAnswer
    /\ store = [t \in Tasks |-> NoState]
    /\ hosting = {}
    /\ artifacts = {}
    /\ wk = [w \in Workers |-> Idle]
    /\ minted = 0
    /\ call \in C

InitSanitise == InitCalls({[state |-> "called", path |-> p] : p \in SanitiseInputs})

SanitisePathCall ==
    /\ call.state = "called"
    /\ LET result == _sanitise_path(call.path)
       IN  call' = [state |-> "returned", path |-> call.path,
                    raised |-> result.raised, value |-> result.value]
    /\ UNCHANGED <<settings, queue, arrivals, http, store, hosting, artifacts, wk, minted>>

NextSanitise == SanitisePathCall

SpecSanitise == InitSanitise /\ [][NextSanitise]_vars

\* The segments of a path as written: what lies between its slashes.
Segments(path) == SplitOn(path, "/", <<>>)

HasSegment(path, seg) == \E i \in DOMAIN Segments(path) : Segments(path)[i] = seg

\* C11: _sanitise_path raises a generation error for every path with a ".."
\* segment, for every path with an empty segment and for the empty string,
\* and returns "a/b/c.html" unchanged.
C11_SanitiseRejectsUnsafe ==
    call.state = "returned" =>
        /\ (call.path = <<>> \/ HasSegment(call.path, <<".", ".">>)
              \/ HasSegment(call.path, <<>>)) => call.raised # "none"
        /\ call.path = PathABC => (call.raised = "none" /\ call.value = PathABC)

(***************************************************************************)
(* slugify (src/utils.py) applied on its own, with the default max_length, *)
(* to short texts and to texts about as long as max_length.                *)
(***************************************************************************)
SlugAlphabet == {"a", "A", "-", "!"}

RECURSIVE Repeat(_, _)
Repeat(c, n) == IF n = 0 THEN <<>> ELSE <<c>> \o Repeat(c, n - 1)

SlugPrefixes == {<<>>} \cup {Repeat("a", n) : n \in (SlugMaxLength - 2)..SlugMaxLength}

SlugInputs == {pre \o tail : pre \in SlugPrefixes, tail \in TextsUpTo(SlugAlphabet, MaxSlugTail)}

InitSlugify == InitCalls({[state |-> "called", value |-> x] : x \in SlugInputs})

\* slugify(value), and slugify applied to what it returned.
SlugifyCall ==
    /\ call.state = "called"
    /\ LET once == slugify(call.value, SlugMaxLength)
       IN  call' = [state |-> "returned", value |-> call.value, once |-> once,
                    twice |-> slugify(once, SlugMaxLength)]
    /\ UNCHANGED <<settings, queue, arrivals, http, store, hosting, artifacts, wk, minted>>

NextSlugify == SlugifyCall

SpecSlugify == InitSlugify /\ [][NextSlugify]_vars

\* No character of the text is a letter or a digit.
AllPunctuation(x) == \A i \in DOMAIN x : Fold(x[i]) \in {<<"-">>, <<"!">>}

\* C12: slugify(slugify(x)) = slugify(x) for every x, and an empty or
\* all-punctuation x gives "generated-app".
C12_SlugifyIdempotent ==
    call.state = "returned" =>
        /\ call.twice = call.once
        /\ AllPunctuation(call.value) => call.once = GeneratedApp

(***************************************************************************)
(* LLMGenerator._parse_files (src/services/llm_generator.py) applied on    *)
(* its own.  The content of a file entry is kept as what decides its size: *)
(* the number of characters, how many of them take two bytes in UTF-8, and *)
(* for base64 the number of padding characters.                            *)
(***************************************************************************)
MAX_FILE_BYTES == 512000

\* str.lower() of the encodings of the model
Lower(e) == IF e = "BASE64" THEN "base64" ELSE e

\* content.encode("utf-8"): one byte for a character, two for a wide one.
Utf8Length(content) == content.chars + content.wide

\* base64.b64decode(content) raises unless the characters come in groups
\* of four.
B64Decodes(content) == content.chars % 4 = 0

\* base64.b64decode(content): three bytes for four characters, less the padding.
B64Length(content) == (content.chars \div 4) * 3 - content.pad

NoContent == [chars |-> 0, wide |-> 0, pad |-> 0, text |-> FALSE]

TextContent(chars, wide, pad) == [chars |-> chars, wide |-> wide, pad |-> pad, text |-> TRUE]

FileEntry(path, content, encoding) == [path |-> path, content |-> content, encoding |-> encoding]

\* The decoded length of an entry's content, as lines 169-177 compute it.
DecodedLength(entry) ==
    IF Lower(OrElse(entry.encoding, "utf-8")) = "base64"
    THEN B64Length(entry.content)
    ELSE Utf8Length(entry.content)

\* Whether the decoding of an entry's content raises (base64 only).
DecodeRaises(entry) ==
    Lower(OrElse(entry.encoding, "utf-8")) = "base64" /\ ~B64Decodes(entry.content)

\* A file of exactly the cap is refused as well.
ExceedsCapInclusive(n) == n >= MAX_FILE_BYTES

\* len(bytes_content) > MAX_FILE_BYTES
ExceedsCap(n) == n > MAX_FILE_BYTES

\* The error an entry raises on its own ("none" when it is stored), in the
\* order of the tests of lines 163-182.
EntryError(entry) ==
    IF entry.path = <<>> THEN "missing-path"
    ELSE IF ~entry.content.text THEN "missing-content"
    ELSE IF _sanitise_path(entry.path).raised # "none" THEN _sanitise_path(entry.path).raised
    ELSE IF DecodeRaises(entry) THEN "bad-base64"
    ELSE IF ExceedsCap(DecodedLength(entry)) THEN "exceeds"
    ELSE "none"

\* The loop of lines 156-184 over files_field[i..].
RECURSIVE ParseFrom(_, _, _)
ParseFrom(files_field, i, result) ==
    IF i > Len(files_field) THEN [raised |-> "none", path |-> <<>>, cap |-> 0, files |-> result]
    ELSE LET entry == files_field[i]
             err == EntryError(entry)
         IN  IF err = "none"
             THEN ParseFrom(files_field, i + 1,
                            SetItem(result, _sanitise_path(entry.path).value, DecodedLength(entry)))
             ELSE IF err = "exceeds"
                  THEN [raised |-> err, path |-> _sanitise_path(entry.path).value,
                        cap |-> MAX_FILE_BYTES, files |-> NoFiles]
                  ELSE [raised |-> err, path |-> entry.path, cap |-> 0, files |-> NoFiles]

\* _parse_files(payload) for a payload that is a JSON object: is_list says
\* whether its "files" member is a list, files is that list.
_parse_files(payload) ==
    IF ~payload.is_list \/ payload.files = <<>>
    THEN [raised |-> "no-files", path |-> <<>>, cap |-> 0, files |-> NoFiles]
    ELSE ParseFrom(payload.files, 1, NoFiles)

EntryPaths == {<<>>, <<"a">>, <<".", "/", "b">>, <<"a", "/", ".", ".">>}

B64CapChars == ((MAX_FILE_BYTES + 1) \div 3) * 4      \* base64 characters of cap + 1 bytes

EntryContents ==
    {NoContent} \cup
    {TextContent(n, w, 0) : n \in {0, MAX_FILE_BYTES - 1, MAX_FILE_BYTES, MAX_FILE_BYTES + 1},
                            w \in {0}} \cup
    {TextContent(MAX_FILE_BYTES - 1, w, 0) : w \in {1, 2}} \cup
    {TextContent(n, 0, pd) : n \in {B64CapChars, B64CapChars + 1}, pd \in {0, 1, 2}}

EntryEncodings == {None, "base64", "BASE64"}

FileEntries ==
    {FileEntry(pa, co, en) : pa \in EntryPaths, co \in EntryContents, en \in EntryEncodings}

\* The entries that stand for a file of a given size at path "a".
SizedEntries ==
    {FileEntry(<<"a">>, co, en) : co \in EntryContents \ {NoContent}, en \in EntryEncodings}

FilesFields ==
    UNION {[1..n -> FileEntries] : n \in 0..1}
        \cup UNION {[1..n -> SizedEntries] : n \in 2..MaxEntries}

Payloads ==
    {[is_list |-> FALSE, files |-> <<>>]} \cup {[is_list |-> TRUE, files |-> ff] : ff \in FilesFields}

InitParse == InitCalls({[state |-> "called", payload |-> pl] : pl \in Payloads})

ParseFilesCall ==
    /\ call.state = "called"
    /\ LET result == _parse_files(call.payload)
       IN  call' = [state |-> "returned", payload |-> call.payload,
                    raised |-> result.raised, path |-> result.path,
                    cap |-> result.cap, files |-> result.files]
    /\ UNCHANGED <<settings, queue, arrivals, http, store, hosting, artifacts, wk, minted>>

NextParse == ParseFilesCall

SpecParse == InitParse /\ [][NextParse]_vars

\* An entry with a string path that sanitises, a string content and, for
\* base64, a content that decodes.
WellFormed(entry) ==
    /\ entry.path # <<>> /\ entry.content.text
    /\ _sanitise_path(entry.path).raised = "none"
    /\ ~DecodeRaises(entry)

\* An entry whose content decodes to more than the cap.
Oversize(entry) ==
    /\ entry.content.text /\ ~DecodeRaises(entry)
    /\ DecodedLength(entry) > MAX_FILE_BYTES

\* C13: _parse_files returns no file longer than 512,000 bytes and fails
\* with a generation error whenever an entry decodes to more; the error
\* names the path of the first such entry and the cap when the entries
\* before it were stored; entries of at most 512,000 bytes, exactly
\* 512,000 included, are stored with their bytes, whatever the encoding.
C13_FileSizeCap ==
    call.state = "returned" =>
        LET ff == call.payload.files
        IN  /\ call.raised = "none" =>
                  /\ \A pa \in DOMAIN call.files : call.files[pa] <= MAX_FILE_BYTES
                  /\ \A i \in DOMAIN ff : ~Oversize(ff[i])
            /\ \A i \in DOMAIN ff :
                  (/\ Oversize(ff[i]) /\ WellFormed(ff[i])
                   /\ \A j \in 1..(i - 1) : WellFormed(ff[j]) /\ ~Oversize(ff[j])) =>
                      /\ call.raised = "exceeds"
                      /\ call.path = _sanitise_path(ff[i].path).value
                      /\ call.cap = MAX_FILE_BYTES
            /\ (ff # <<>> /\ \A i \in DOMAIN ff : WellFormed(ff[i]) /\ ~Oversize(ff[i])) =>
                  /\ call.raised = "none"
                  /\ \A i \in DOMAIN ff :
                        /\ _sanitise_path(ff[i].path).value \in DOMAIN call.files
                        /\ \E j \in i..Len(ff) :
                              /\ ff[j].path = ff[i].path
                              /\ call.files[_sanitise_path(ff[i].path).value] = DecodedLength(ff[j])

\* A file of exactly 512,000 bytes was taken and the base64 entry after it,
\* which decodes to 512,001 bytes, made the call fail.
C13_Witness ==
    /\ call.state = "returned" /\ call.raised = "exceeds"
    /\ Len(call.payload.files) = 2
    /\ DecodedLength(call.payload.files[1]) = MAX_FILE_BYTES
    /\ call.payload.files[2].encoding = "base64"
    /\ DecodedLength(call.payload.files[2]) = MAX_FILE_BYTES + 1

\* C14: every callback POST of a round carries the email, task, round and
\* nonce of the request the round was started with and goes to that
\* request's evaluation_url, whatever other rounds are or were processed.
C14_CallbackEchoesRequest ==
    \A w \in Workers : \A i \in DOMAIN wk[w].posts :
        LET post == wk[w].posts[i]
            request == wk[w].req
        IN  /\ post.to = request.evaluation_url
            /\ post.body.email = request.email
            /\ post.body.task = request.task
            /\ post.body.round = request.round
            /\ post.body.nonce = request.nonce

\* Round 2 of a task, which read the record of round 1 with another nonce,
\* has POSTed its callback while the other worker has POSTed the callback
\* of a round with another nonce.
C14_Witness ==
    \E w, v \in Workers :
        /\ w # v /\ wk[w].posts # <<>> /\ wk[v].posts # <<>>
        /\ FoundState(w) /\ wk[w].task_state.nonce # wk[w].req.nonce
        /\ wk[v].req.nonce # wk[w].req.nonce

\* The step is a POST /app and its answer.
IsPostApp == arrivals' = arrivals + 1 /\ http'.n = arrivals'

\* C15: an accepted request is acknowledged with ok = true and enqueued as
\* exactly one message, which holds the request's fields and _received_at;
\* a request that is not accepted enqueues nothing; and the worker that
\* takes a message re-validates it, without the keys that start with "_",
\* into a TaskRequest equal to the accepted one.
C15_ByValueHandOff ==
    [][/\ IsPostApp =>
             IF http'.status = "200"
             THEN /\ http'.ack.ok
                  /\ Len(queue') = Len(queue) + 1
                  /\ SubSeq(queue', 1, Len(queue)) = queue
                  /\ LET message == queue'[Len(queue')]
                     IN  /\ DOMAIN message = RequestKeys \cup {ReceivedAtKey}
                         /\ \A k \in RequestKeys \ {"evaluation_url"} :
                               message[k] = http'.request[k]
                         /\ message["evaluation_url"] = StrUrl(http'.request.evaluation_url)
                         /\ Revalidates(StripInternal(message))
                         /\ TaskRequestOf(StripInternal(message)) = http'.request
             ELSE queue' = queue
       /\ \A w \in Workers :
             (queue # <<>> /\ queue' = Tail(queue) /\ wk'[w] # wk[w]
                /\ DOMAIN Head(queue) = RequestKeys \cup {ReceivedAtKey}) =>
                 /\ wk'[w].pc # "raised"
                 /\ wk'[w].req = TaskRequestOf(StripInternal(Head(queue)))
    ]_vars

\* A worker has started the round of the request just accepted: a request
\* POSTed without checks and attachments and with a URL without a path,
\* which validation completed with empty lists and the path "/".
C15_Witness ==
    \E w \in Workers :
        /\ wk[w].pc = "build" /\ http.status = "200" /\ queue = <<>>
        /\ wk[w].req = http.request
        /\ wk[w].req.task = Task1 /\ wk[w].req.round = 1
        /\ wk[w].req.checks = <<>> /\ wk[w].req.attachments = <<>>
        /\ wk[w].req.evaluation_url.path = "/"

GeneratorFiles(llm) == IF llm \in LLMResults THEN LlmFiles(llm) ELSE generate_static_site

\* The paths of a sequence of paths.
PathSet(paths) == {paths[i] : i \in DOMAIN paths}

\* C17: in the file set to publish, task.json is the serialized request;
\* every staged attachment path holds what was staged; every other path of
\* the generator keeps the generator's bytes; and every remaining path was
\* backfilled at a path the generator left absent: LICENSE, the workflow
\* and README.md with the defaults, the raw LLM response when an LLM result
\* was used, the fallback site's files when the LLM left index.html out.
C17_FileSetPrecedence ==
    \A w \in Workers :
        wk[w].pc \in {"publish", "poll", "persist"} =>
            LET files == wk[w].files
                gen == GeneratorFiles(wk[w].llm)
                atts == PathSet(wk[w].attachment_paths)
            IN  /\ files[TaskJson] = "task-request"
                /\ \A pa \in atts : files[pa] = wk[w].staged[pa]
                /\ \A pa \in DOMAIN gen \ (atts \cup {TaskJson}) : files[pa] = gen[pa]
                /\ \A pa \in DOMAIN files \ (DOMAIN gen \cup atts \cup {TaskJson}) :
                      \/ pa \in DOMAIN required_defaults /\ files[pa] = "default"
                      \/ pa = LlmRawOutput /\ wk[w].llm \in LLMResults
                            /\ files[pa] = "llm-raw"
                      \/ /\ pa \in DOMAIN generate_static_site
                         /\ pa \notin DOMAIN required_defaults
                         /\ IndexHtml \notin DOMAIN gen
                         /\ files[pa] = "fallback"

\* The LLM produced files at task.json, at the path of a staged
\* attachment, at the workflow path and at the diagnostic path: the first
\* two were overwritten, the other two kept.
C17_Witness ==
    \E w \in Workers :
        /\ wk[w].pc = "publish" /\ wk[w].llm = "clash"
        /\ AssetA \in PathSet(wk[w].attachment_paths)
        /\ wk[w].files[AssetA] = "attachment"
        /\ wk[w].files[TaskJson] = "task-request"
        /\ wk[w].files[PagesYml] = "llm" /\ wk[w].files[LlmRawOutput] = "llm"
        /\ wk[w].files[License] = "default"

\* The files of the round were published: pushed to the hosting service,
\* or written under artifacts/<repo-name>/.
FilesPublished(w) ==
    IF wk[w].github
    THEN /\ {"push_files", "ensure_pages_enabled"} \subseteq wk[w].calls
         /\ \E a \in hosting : a.name = wk[w].repo_name /\ a.task = wk[w].req.task
    ELSE /\ RequiredFiles \subseteq wk[w].wrote
         /\ \E a \in artifacts : a.name = wk[w].repo_name /\ a.task = wk[w].req.task

\* The readiness of the round was determined: "dry-run" without a hosting
\* client, "ready" after a 200, "pending" when the polling saw none.
ReadinessDetermined(w) ==
    IF wk[w].github
    THEN \/ wk[w].pages_status = "ready" /\ wk[w].seen200
         \/ wk[w].pages_status = "pending" /\ ~wk[w].seen200
    ELSE wk[w].pages_status = "dry-run"

\* C18: the round state is written only after publishing and the readiness
\* determination have finished; a callback is POSTed only after that write
\* was attempted, hence only for a round whose files were published; and
\* the record the store took is still there when all 5 callback attempts
\* have failed.
C18_StepOrdering ==
    \A w \in Workers :
        /\ wk[w].stored # "no" => (FilesPublished(w) /\ ReadinessDetermined(w))
        /\ wk[w].posts # <<>> => (wk[w].stored # "no" /\ FilesPublished(w))
        /\ wk[w].pc \in {"build", "publish", "poll"} =>
              (wk[w].stored = "no" /\ wk[w].posts = <<>>)
        /\ (wk[w].gave_up /\ wk[w].stored = "written") =>
              /\ Len(wk[w].posts) = MaxAttempts
              /\ store[wk[w].req.task] = PersistedState(wk[w])

\* A round published through the hosting service, whose pages were still
\* pending at the deadline, stored its state and then failed all 5 callback
\* attempts.
C18_Witness ==
    \E w \in Workers :
        /\ wk[w].gave_up /\ wk[w].stored = "written" /\ wk[w].github
        /\ wk[w].pages_status = "pending"
        /\ store[wk[w].req.task].round = wk[w].req.round

\* The last POST of the round was answered with a 2xx status.
Delivered(w) == wk[w].sent # <<>> /\ wk[w].sent[Len(wk[w].sent)]

\* C19: the callback loop stops at the first success: a POST answered with
\* success is the last POST of its round, so at most one is; the POSTs are
\* the k failed ones, each followed by a sleep, and the successful one,
\* after which the round is over with no further POST and no further sleep.
C19_StopsAtFirstSuccess ==
    /\ [](\A w \in Workers :
            /\ \A i \in DOMAIN wk[w].sent : wk[w].sent[i] => i = Len(wk[w].sent)
            /\ Len(wk[w].posts) = Len(wk[w].sent)
            /\ Len(wk[w].sent) <= MaxAttempts
            /\ Delivered(w) =>
                  /\ wk[w].pc = "done" /\ ~wk[w].gave_up
                  /\ Len(wk[w].sleeps) = Len(wk[w].sent) - 1
            /\ wk[w].pc = "callback" => \A i \in DOMAIN wk[w].sent : ~wk[w].sent[i])
    /\ [][\A w \in Workers :
            Delivered(w) =>
                \/ wk'[w].posts = wk[w].posts /\ wk'[w].sleeps = wk[w].sleeps
                \/ wk'[w].posts = <<>> /\ wk'[w].sleeps = <<>>]_vars

\* Two attempts failed and the third was answered with success: three
\* POSTs, two sleeps, and the round is over.
C19_Witness ==
    \E w \in Workers :
        /\ wk[w].sent = <<FALSE, FALSE, TRUE>> /\ wk[w].pc = "done"
        /\ Len(wk[w].posts) = 3
        /\ wk[w].sleeps = <<InitialDelay, InitialDelay * BackoffFactor>>

\* _wait_for_pages has returned in this round.
PollReturned(w) == wk[w].github /\ wk[w].pc = "persist"

\* C20: _wait_for_pages returns "ready" exactly when a GET answered 200,
\* and "pending" otherwise; every GET is issued before the deadline (none
\* with timeout 0); a 200 ends the polling; every other answer, a network
\* error included, is followed by one sleep of the interval.
C20_ReadinessPolling ==
    \A w \in Workers :
        LET gets == wk[w].gets
            misses == {i \in DOMAIN gets : gets[i].answer # "200"}
        IN  /\ \A i \in DOMAIN gets : gets[i].at < settings.pages_timeout_seconds
            /\ settings.pages_timeout_seconds = 0 => gets = <<>>
            /\ \A i \in DOMAIN gets : gets[i].answer = "200" => i = Len(gets)
            /\ Len(wk[w].naps) = Cardinality(misses)
            /\ \A i \in DOMAIN wk[w].naps : wk[w].naps[i] = PollInterval
            /\ \A i \in misses : i < Len(gets) => gets[i + 1].at >= gets[i].at + PollInterval
            /\ PollReturned(w) =>
                  /\ wk[w].pages_status = "ready" <=>
                        \E i \in DOMAIN gets : gets[i].answer = "200"
                  /\ wk[w].pages_status \in {"ready", "pending"}
                  /\ wk[w].pages_status = "pending" =>
                        wk[w].now >= settings.pages_timeout_seconds

\* A network error, a sleep, then a GET issued before the deadline that
\* answered 200 after it: "ready".
C20_Witness ==
    \E w \in Workers :
        /\ PollReturned(w) /\ wk[w].pages_status = "ready"
        /\ Len(wk[w].gets) = 2 /\ wk[w].gets[1].answer = "network-error"
        /\ wk[w].now >= settings.pages_timeout_seconds

(***************************************************************************)
(* LLMGenerator.generate_app and what the worker makes of its result       *)
(* (src/tasks.py, lines 196-270), applied on their own to a chat           *)
(* completion: the API call fails, the message is empty, or it carries a   *)
(* manifest.                                                               *)
(***************************************************************************)
Completions == {"ok", "api-error", "empty"}

\* generate_app: the error it raises ("none" when it returns) and the files
\* of its result.
generate_app(completion, payload) ==
    IF completion # "ok" THEN [raised |-> completion, files |-> NoFiles]
    ELSE LET parsed == _parse_files(payload)
         IN  [raised |-> parsed.raised, files |-> parsed.files]

\* A key of the parser's file map as the path of a file: its segments.
PathOf(key) == SplitOn(key, "/", <<>>)

\* dict(llm_result.files), each file tagged as coming from the LLM.
LlmResultFiles(files) == [p \in {PathOf(k) : k \in DOMAIN files} |-> "llm"]

GoodEntry == FileEntry(<<"a">>, TextContent(4, 0, 0), None)

ManifestPaths == {<<>>, <<"a">>, <<".", ".", "/", "x">>, <<"a", "/", ".", ".">>}

ManifestContents ==
    {NoContent, TextContent(1, 0, 0), TextContent(4, 0, 0), TextContent(MAX_FILE_BYTES + 1, 0, 0)}

ManifestEntries ==
    {FileEntry(pa, co, en) : pa \in ManifestPaths, co \in ManifestContents,
                             en \in {None, "base64"}}

\* Manifests of valid entries followed by one entry of any kind, and
\* manifests of one entry with a valid content at any short path.
Manifests ==
    {[is_list |-> FALSE, files |-> <<>>]} \cup
    {[is_list |-> TRUE, files |-> [i \in 1..n |-> IF i < n THEN GoodEntry ELSE e]] :
        n \in 1..MaxEntries, e \in ManifestEntries} \cup
    {[is_list |-> TRUE, files |-> <<FileEntry(pa, TextContent(4, 0, 0), None)>>] :
        pa \in SanitiseInputs}

InitGenerate ==
    InitCalls({[state |-> "called", completion |-> co, payload |-> pl, attachments |-> at] :
                  co \in Completions, pl \in Manifests, at \in {<<>>, OneAttachment}})

\* Lines 182-270 for a round whose attachments are staged: the
\* exceptions of generate_app are caught at lines 201-204, the file set is
\* built and line 272 is reached.
GenerateCall ==
    /\ call.state = "called"
    /\ LET wa == write_attachments(call.attachments, [i \in DOMAIN call.attachments |-> TRUE])
           result == generate_app(call.completion, call.payload)
           has_llm == result.raised = "none"
           llm_files == LlmResultFiles(result.files)
       IN  call' = [state |-> "returned", completion |-> call.completion,
                    payload |-> call.payload, attachments |-> call.attachments,
                    raised |-> result.raised,
                    llm_files |-> llm_files,
                    files_to_publish |-> FilesFrom(has_llm, llm_files, wa.paths, wa.written),
                    pc |-> "publish"]
    /\ UNCHANGED <<settings, queue, arrivals, http, store, hosting, artifacts, wk, minted>>

NextGenerate == GenerateCall

SpecGenerate == InitGenerate /\ [][NextGenerate]_vars

\* A path the spec has the parser refuse: one with a ".." segment or an
\* empty segment.
UnsafePath(path) == HasSegment(path, <<".", ".">>) \/ HasSegment(path, <<>>)

\* An invalid entry of a manifest: no path, no textual content, an unsafe
\* path, base64 that does not decode, or more bytes than the cap.
InvalidEntry(entry) ==
    \/ entry.path = <<>>
    \/ ~entry.content.text
    \/ UnsafePath(entry.path)
    \/ DecodeRaises(entry)
    \/ Oversize(entry)

\* C21 as claimed: when the call fails or any entry of the manifest is
\* invalid, generate_app raises and gives no file, the file set holds no
\* file of the LLM and no automation/llm_raw_output.json, and the round
\* goes on to publishing.
C21_AllOrNothing ==
    call.state = "returned" =>
        LET ff == call.payload.files
        IN  (call.completion # "ok" \/ \E i \in DOMAIN ff : InvalidEntry(ff[i])) =>
                /\ call.raised # "none"
                /\ call.llm_files = NoFiles
                /\ \A p \in DOMAIN call.files_to_publish : call.files_to_publish[p] # "llm"
                /\ LlmRawOutput \notin DOMAIN call.files_to_publish
                /\ call.pc = "publish"

\* The same with an unsafe path taken for one that _sanitise_path refuses:
\* every failure of generate_app leaves the fallback file set alone.
C21_FailureGivesFallback ==
    call.state = "returned" =>
        LET ff == call.payload.files
        IN  (call.completion # "ok" \/ \E i \in DOMAIN ff : EntryError(ff[i]) # "none") =>
                /\ call.raised # "none"
                /\ call.llm_files = NoFiles
                /\ \A p \in DOMAIN call.files_to_publish : call.files_to_publish[p] # "llm"
                /\ LlmRawOutput \notin DOMAIN call.files_to_publish
                /\ call.pc = "publish"

\* C22 as claimed: a round that constructed a hosting client has released
\* it when the round has ended, however it ended.
C22_ClientReleased ==
    \A w \in Workers :
        (wk[w].pc \in EndStates /\ wk[w].github) => wk[w].released

\* A path that begins with "./".
StartsWithDotSlash(path) == Len(path) >= 2 /\ path[1] = "." /\ path[2] = "/"

\* A path that does not begin with "./" and whose segments are all
\* non-empty and none "..".
PlainPath(path) ==
    /\ ~StartsWithDotSlash(path)
    /\ \A i \in DOMAIN Segments(path) : Segments(path)[i] \notin {<<>>, <<".", ".">>}

\* C23 as claimed: _sanitise_path returns such a path unchanged
\* (".github/workflows/pages.yml" for one), and returns p for "./p".
C23_StripsOnlyDotSlash ==
    call.state = "returned" =>
        /\ PlainPath(call.path) => (call.raised = "none" /\ call.value = call.path)
        /\ (StartsWithDotSlash(call.path) /\ PlainPath(SubSeq(call.path, 3, Len(call.path)))) =>
              (call.raised = "none" /\ call.value = SubSeq(call.path, 3, Len(call.path)))

(***************************************************************************)
(* Termination of a round.  Every call to the outside returns or times     *)
(* out and the clock advances, so a worker in the middle of a round takes  *)
(* its next step.  The round is any one round: of any request, under any   *)
(* of the settings.                                                        *)
(***************************************************************************)
\* The steps of orchestrate_task after its start.
RoundStep(w) ==
    \/ \E fetched \in UNION {[1..n -> BOOLEAN] : n \in 0..1},
          llm \in LLMErrors \cup LLMResults \cup {"none"} : Build(w, fetched, llm)
    \/ \E outcome \in HostingOutcomes : PublishRemote(w, outcome)
    \/ PublishLocal(w)
    \/ \E answer \in {"200", "404", "network-error"}, took \in 0..MaxGetTime :
          Poll(w, answer, took)
    \/ PollExpire(w)
    \/ \E written \in BOOLEAN : Persist(w, written)
    \/ \E delivered \in BOOLEAN : Callback(w, delivered)

\* One message reaches the broker and a worker takes it.
NextTerminates ==
    \/ arrivals = 0 /\ \E b \in Bodies : PostApp(b)
    \/ arrivals = 0 /\ \E p \in ForeignPayloads : SendTask(p)
    \/ \E loaded \in BOOLEAN : Start("w1", loaded)
    \/ RoundStep("w1")

SpecTerminates == Init /\ [][NextTerminates]_vars /\ WF_vars(RoundStep("w1"))

InRound(w) == ~Free(w)

\* C24: every round that was started ends; while it polls, every GET was
\* issued before the deadline, so their number is bounded by the timeout;
\* it makes at most five callback POSTs.
C24_RoundTerminates ==
    /\ [](\A w \in Workers :
            /\ Len(wk[w].posts) <= MaxAttempts
            /\ \A i \in DOMAIN wk[w].gets :
                  /\ wk[w].gets[i].at < settings.pages_timeout_seconds
                  /\ wk[w].gets[i].at >= (i - 1) * PollInterval)
    /\ (InRound("w1") ~> wk["w1"].pc \in EndStates)

\* A hosted round whose polling never saw a 200 and whose five callback
\* POSTs all failed has ended.
C24_Witness ==
    /\ wk["w1"].pc = "done" /\ wk["w1"].gave_up
    /\ "poll" \in wk["w1"].calls /\ ~wk["w1"].seen200
    /\ wk["w1"].pages_status = "pending"
    /\ Len(wk["w1"].posts) = MaxAttempts

\* How deep below the root a path ends, and how high above it the path
\* ever climbs (a negative depth), following its segments.
RECURSIVE LowestDepth(_, _, _)
LowestDepth(path, depth, lowest) ==
    IF path = <<>> THEN lowest
    ELSE LET seg == Head(path)
             d == IF seg = <<".", ".">> THEN depth - 1
                  ELSE IF seg \in {<<>>, <<".">>} THEN depth ELSE depth + 1
         IN  LowestDepth(Tail(path), d, IF d < lowest THEN d ELSE lowest)

\* A relative path with no ".." segment and no empty segment (an empty
\* first segment is a leading "/").
SafeRelative(path) ==
    path # <<>> /\ \A i \in DOMAIN path : path[i] \notin {<<>>, <<".", ".">>}

\* C25: every key of the file map the LLM parser returns is a relative
\* path with no ".." segment, no empty segment and no leading "/", and so
\* is every path of the file set the worker publishes or writes under
\* artifacts/<repo-name>/: none climbs above the root of the repository.
C25_NoEscape ==
    call.state = "returned" =>
        \A p \in DOMAIN call.llm_files \cup DOMAIN call.files_to_publish :
            SafeRelative(p) /\ LowestDepth(p, 0, 0) >= 0

\* A manifest whose path begins with ".." was taken: its file is kept at
\* a path inside the repository, next to a staged attachment.
C25_Witness ==
    /\ call.state = "returned" /\ call.raised = "none"
    /\ call.payload.files[1].path = <<".", ".", "/", "a">>
    /\ DOMAIN call.llm_files = {<< <<"a">> >>}
    /\ AssetA \in DOMAIN call.files_to_publish

\* The request with another secret.
WithSecret(r, secret) == [r EXCEPT !.secret = secret]

\* C26 as claimed: what a round publishes, prompts, stores and calls back
\* is the same for every secret the request could have been accepted
\* with.
C26_SecretStaysInside ==
    \A w \in Workers : \A secret \in {AppSecret, "s2"} :
        LET other == WithSecret(wk[w].req, secret)
            round == [wk[w] EXCEPT !.req = other]
        IN  validate_secret(other, settings) = "ok" =>
              /\ wk[w].pc = "publish" =>
                    /\ wk[w].task_json = jsonable_encoder(other)
                    /\ wk[w].llm # "none" =>
                          wk[w].prompt = _build_messages(other, wk[w].attachment_paths)
              /\ wk[w].pc \in {"callback", "done"} =>
                    /\ wk[w].payload = CallbackPayload(round)
                    /\ wk[w].stored = "written" =>
                          store[wk[w].req.task] = PersistedState(round)

\* The same without the published files: the prompt, the stored round
\* state and the callback payload are the same for every such secret.
C26_SecretNotInPromptStateCallback ==
    \A w \in Workers : \A secret \in {AppSecret, "s2"} :
        LET other == WithSecret(wk[w].req, secret)
            round == [wk[w] EXCEPT !.req = other]
        IN  validate_secret(other, settings) = "ok" =>
              /\ (wk[w].pc = "publish" /\ wk[w].llm # "none") =>
                    wk[w].prompt = _build_messages(other, wk[w].attachment_paths)
              /\ wk[w].pc \in {"callback", "done"} =>
                    /\ wk[w].payload = CallbackPayload(round)
                    /\ wk[w].stored = "written" =>
                          store[wk[w].req.task] = PersistedState(round)

\* C27: a round whose read of the round state failed goes on with no
\* state and a freshly composed repository name, and is abandoned only
\* for a hosting-configuration error; a round whose write of the round
\* state failed goes on to the callback with the payload it builds from
\* the round (it fails there only when that payload is invalid), and
\* every POST carries that payload.
C27_StoreFailuresDoNotAbort ==
    \A w \in Workers :
        /\ wk[w].load_failed =>
              /\ wk[w].pc # "raised"
              /\ wk[w].task_state = NoState
              /\ wk[w].composed
              /\ wk[w].repo_name = _compose_repo_name(wk[w].req, wk[w].repo_name[3])
              /\ wk[w].pc = "aborted" => (WantsGitHub(settings) /\ GitHubServiceFails(settings))
        /\ wk[w].stored = "lost" =>
              /\ wk[w].pc \in {"callback", "done", "failed"}
              /\ wk[w].pc = "failed" => ~CallbackValidates(CallbackPayload(wk[w]))
              /\ wk[w].pc \in {"callback", "done"} =>
                    /\ wk[w].payload = CallbackPayload(wk[w])
                    /\ \A i \in DOMAIN wk[w].posts :
                          wk[w].posts[i] = Post(wk[w].req, CallbackPayload(wk[w]))
              /\ wk[w].pc = "done" => wk[w].posts # <<>>

\* A round of a task that has a stored record could not read it, composed
\* a name of its own, could not write its state and delivered its
\* callback.
C27_Witness ==
    /\ wk["w1"].load_failed /\ wk["w1"].stored = "lost"
    /\ store[wk["w1"].req.task].repo_name # NoName
    /\ wk["w1"].repo_name # store[wk["w1"].req.task].repo_name
    /\ wk["w1"].pc = "done" /\ Delivered("w1")

====
